---- MODULE Spec2Model ----
(***************************************************************************)
(* Model of make_plandata.py: main's pipeline                              *)
(*   read_csv -> make_plan (add_planlist) -> fill_dummydata -> save_csv.   *)
(*                                                                         *)
(* A Python str is a sequence of one-character strings, a Python int is    *)
(* an integer, a Python list is a sequence.  A csv row is a list of cells  *)
(* (str); an output record is the 9-element list add_planlist builds.      *)
(* List indices are the source's indices plus one.                         *)
(***************************************************************************)
EXTENDS Integers, Sequences, FiniteSets, TLC

(* ------------------------------ bounds --------------------------------- *)
\* most data rows in the input file
MaxRows == 2
\* the short planning windows span 0..MaxSpan years
MaxSpan == 2
\* the integer periods of the input rows are 0..MaxPeriod
MaxPeriod == 2
\* most records of a list handed directly to fill_dummydata
MaxRecs == 2

(* --------------------------- program constant -------------------------- *)
limmit_num == 100

(* ------------------------------ Python str ----------------------------- *)
Whitespace == {" "}

DigitChars == <<"0", "1", "2", "3", "4", "5", "6", "7", "8", "9">>

IsDigit(c) == \E d \in 1..Len(DigitChars) : DigitChars[d] = c

DigitOf(c) == (CHOOSE d \in 1..Len(DigitChars) : DigitChars[d] = c) - 1

\* cell.strip() == ""
IsBlank(cell) == \A k \in 1..Len(cell) : cell[k] \in Whitespace

RECURSIVE LStrip(_)
LStrip(s) == IF s # <<>> /\ Head(s) \in Whitespace THEN LStrip(Tail(s)) ELSE s

RECURSIVE RStrip(_)
RStrip(s) ==
    IF s # <<>> /\ s[Len(s)] \in Whitespace
    THEN RStrip(SubSeq(s, 1, Len(s) - 1))
    ELSE s

strip(s) == RStrip(LStrip(s))

\* the digits of an integer literal, after the blanks and the sign
Unsigned(s) ==
    LET t == strip(s)
    IN  IF t # <<>> /\ Head(t) \in {"-", "+"} THEN Tail(t) ELSE t

RECURSIVE DigitsValue(_)
DigitsValue(ds) ==
    IF ds = <<>> THEN 0
    ELSE 10 * DigitsValue(SubSeq(ds, 1, Len(ds) - 1)) + DigitOf(ds[Len(ds)])

\* int(s) raises ValueError
ValueError(s) ==
    LET ds == Unsigned(s)
    IN  ds = <<>> \/ \E k \in 1..Len(ds) : ~IsDigit(ds[k])

\* int(s), for a str that int() accepts
int(s) ==
    LET t == strip(s)
    IN  IF Head(t) = "-" THEN 0 - DigitsValue(Unsigned(s))
        ELSE DigitsValue(Unsigned(s))

(* ------------------------------ Python list ---------------------------- *)
\* del lst[lo:hi]
DelSlice(lst, lo, hi) == SubSeq(lst, 1, lo) \o SubSeq(lst, hi + 1, Len(lst))

\* lst.insert(idx, val)
Insert(lst, idx, val) ==
    LET at == IF idx > Len(lst) THEN Len(lst) ELSE idx
    IN  SubSeq(lst, 1, at) \o <<val>> \o SubSeq(lst, at + 1, Len(lst))

\* list(range(lo, hi))
range(lo, hi) == [k \in 1..(IF hi > lo THEN hi - lo ELSE 0) |-> lo + k - 1]

\* a set of integers as the ascending list list.sort() leaves
SortedList(S) ==
    IF S = {} THEN <<>>
    ELSE LET lo == CHOOSE a \in S : \A b \in S : a <= b
             hi == CHOOSE a \in S : \A b \in S : b <= a
         IN  SelectSeq(range(lo, hi + 1), LAMBDA y : y \in S)

\* val in lst
InList(val, lst) == \E k \in 1..Len(lst) : lst[k] = val

\* read_csv's two shapes of result: False, or the list of rows
PyFalse == [bool |-> FALSE]

PyList(rows) == [list |-> rows]

IsList(v) == "list" \in DOMAIN v

(* ------------------------------- read_csv ------------------------------ *)
\* the for loop over the reader: blank rows are skipped, a row with a blank
\* first cell makes the whole read return False
RECURSIVE read_rows(_, _)
read_rows(reader, rows) ==
    IF reader = <<>> THEN PyList(rows)
    ELSE LET row == Head(reader)
         IN  IF row = <<>> \/ \A c \in 1..Len(row) : IsBlank(row[c])
             THEN read_rows(Tail(reader), rows)
             ELSE IF IsBlank(row[1])
                  THEN PyFalse
                  ELSE read_rows(Tail(reader), Append(rows, row))

\* read_csv: False when the path is no file; the header row is dropped
read_csv(path_is_file, content) ==
    IF ~path_is_file THEN PyFalse
    ELSE read_rows(IF content = <<>> THEN <<>> ELSE Tail(content), <<>>)

(* ------------------------------ add_planlist --------------------------- *)
\* the unit of quantity every record carries
unit == <<"s", "h", "i", "k", "i">>

\* the record add_planlist builds from a row and a year
tmplist(row, yyyy) ==
    LET t0 == DelSlice(row, 3, 5)
        t1 == Insert(t0, 1, yyyy)
        t2 == Insert(t1, 4, 1)
        t3 == Insert(t2, 5, unit)
    IN  Insert(t3, 7, 0)

\* faulty variant: the record is appended whatever its year
add_planlist_nofilter(row, yyyy, start_year, plan_list) ==
    LET appended == Append(plan_list, tmplist(row, yyyy))
    IN  IF ValueError(row[5])
        THEN [raised |-> TRUE, yyyy |-> yyyy, plan_list |-> appended]
        ELSE [raised |-> FALSE, yyyy |-> yyyy + int(row[5]),
              plan_list |-> appended]

\* faulty variant: the first year of the plan is filtered out too
add_planlist_strict(row, yyyy, start_year, plan_list) ==
    LET appended == IF yyyy > start_year
                    THEN Append(plan_list, tmplist(row, yyyy))
                    ELSE plan_list
    IN  IF ValueError(row[5])
        THEN [raised |-> TRUE, yyyy |-> yyyy, plan_list |-> appended]
        ELSE [raised |-> FALSE, yyyy |-> yyyy + int(row[5]),
              plan_list |-> appended]

\* add_planlist: appends the record when yyyy >= start_year, then adds the
\* period to yyyy; int(row[4]) raises after the append
add_planlist(row, yyyy, start_year, plan_list) ==
    LET appended == IF yyyy >= start_year
                    THEN Append(plan_list, tmplist(row, yyyy))
                    ELSE plan_list
    IN  IF ValueError(row[5])
        THEN [raised |-> TRUE, yyyy |-> yyyy, plan_list |-> appended]
        ELSE [raised |-> FALSE, yyyy |-> yyyy + int(row[5]),
              plan_list |-> appended]

(* ----------------------------- fill_dummydata -------------------------- *)
\* the label of a dummy work
dummy_label == <<"d", "u", "m", "m", "y">>

\* dummy_data with its year set
dummy_data(cnt_year) ==
    <<5, cnt_year, dummy_label, dummy_label, 1, unit, 0, 0, <<>> >>

\* the years of the records, duplicates removed, ascending
unique_year_list(plan_list) ==
    SortedList({plan_list[k][2] : k \in 1..Len(plan_list)})

\* for cnt_year in range(start_year, last_year): a dummy is appended for
\* every cnt_year that is not in years; the body's own cnt_year += 1 does
\* not change what range() yields next
fill_range(plan_list, years, start_year, last_year) ==
    LET missing == SelectSeq(range(start_year, last_year),
                             LAMBDA cnt_year : ~InList(cnt_year, years))
    IN  plan_list \o [k \in 1..Len(missing) |-> dummy_data(missing[k])]

\* faulty variant: the range starts one year late
fill_dummydata_late(plan_list, start_year, last_year) ==
    fill_range(plan_list, unique_year_list(plan_list), start_year + 1,
               last_year)

\* faulty variant: a dummy for every year of the range
fill_dummydata_noskip(plan_list, start_year, last_year) ==
    LET every == range(start_year, last_year)
    IN  plan_list \o [k \in 1..Len(every) |-> dummy_data(every[k])]

\* faulty variant: dummies inserted at the head of the list
fill_dummydata_front(plan_list, start_year, last_year) ==
    LET years == unique_year_list(plan_list)
        missing == SelectSeq(range(start_year, last_year),
                             LAMBDA cnt_year : ~InList(cnt_year, years))
    IN  [k \in 1..Len(missing) |-> dummy_data(missing[k])] \o plan_list

\* fill_dummydata: one dummy record appended for every year of
\* range(start_year, last_year) that no record of plan_list has
fill_dummydata(plan_list, start_year, last_year) ==
    fill_range(plan_list, unique_year_list(plan_list), start_year, last_year)

(* -------------------------------- state -------------------------------- *)
VARIABLES
    pc,             \* where main is
    start_year,     \* args.start_year
    last_year,      \* args.last_year
    is_file,        \* whether file_path names a file
    file,           \* the rows of the csv file, header first
    data_list,      \* what read_csv returned
    plan_list,      \* the list make_plan and fill_dummydata build
    row_idx,        \* make_plan: which row of data_list the outer for is at
    yyyy,           \* make_plan: the next year of the work of that row
    i,              \* make_plan: the inner for's counter
    arg_list,       \* the list as it was passed to fill_dummydata last
    full_plan_list, \* what fill_dummydata returned
    out_file,       \* the rows written to the output file
    exit_status     \* <<>> while running, <<status>> once the process ended

vars == <<pc, start_year, last_year, is_file, file, data_list, plan_list,
          row_idx, yyyy, i, arg_list, full_plan_list, out_file, exit_status>>

(* -------------------------------- inputs ------------------------------- *)
header == <<<<"v">>, <<"t">>, <<"n">>, <<"y">>, <<"p">>, <<"a">>, <<"r">>>>

\* the work name of the k-th data row
work_name(k) == <<"w", DigitChars[k + 1]>>

\* a data row: [ver, type, name, first year, period, amount, remark]
Row(ver, name, first, period) ==
    <<ver, <<"r", "o", "o", "f">>, name, first, period,
      <<"5", "0", "0">>, <<>> >>

NotAnInt == <<"x">>

FirstYearTexts == {<<"9">>, <<"1", "0">>, NotAnInt}

PeriodTexts == {<<DigitChars[p + 1]>> : p \in 0..MaxPeriod} \cup {NotAnInt}

blank_row == <<<<>>, <<" ">>, <<>>, <<>>, <<>>, <<>>, <<>> >>

\* the rows line k of the file may hold
RowChoices(k) ==
    {Row(<<"1">>, work_name(k), y, p) : y \in FirstYearTexts, p \in PeriodTexts}
    \cup {Row(<<" ">>, work_name(k), <<"1", "0">>, <<"1">>)}
    \cup {<<>>, blank_row}

RECURSIVE Files(_)
Files(n) ==
    IF n = 0 THEN {<<>>}
    ELSE {Append(f, r) : f \in Files(n - 1), r \in RowChoices(n)}

FileChoices ==
    {<<>>} \cup
    {<<header>> \o f : f \in UNION {Files(n) : n \in 0..MaxRows}}

StartYears == {8, 10}

Windows ==
    {<<s, s + d>> : s \in StartYears, d \in 0..MaxSpan}
    \cup {<<10, 10 + limmit_num>>, <<10, 10 + limmit_num + 1>>}

(* --------------------------------- main -------------------------------- *)
Init ==
    /\ pc = "main"
    /\ \E w \in Windows : start_year = w[1] /\ last_year = w[2]
    /\ \/ is_file = TRUE /\ file \in FileChoices
       \/ is_file = FALSE /\ file = <<>>
    /\ data_list = PyList(<<>>)
    /\ plan_list = <<>>
    /\ row_idx = 0
    /\ yyyy = 0
    /\ i = 0
    /\ arg_list = <<>>
    /\ full_plan_list = <<>>
    /\ out_file = <<>>
    /\ exit_status = <<>>

\* main, lines 67-72: sys.exit() without an argument ends with status 0
WindowRejected ==
    /\ pc = "main"
    /\ last_year <= start_year \/ last_year - start_year > limmit_num
    /\ pc' = "exit"
    /\ exit_status' = <<0>>
    /\ UNCHANGED <<start_year, last_year, is_file, file, data_list, plan_list,
                   row_idx, yyyy, i, arg_list, full_plan_list, out_file>>

\* main, line 75
ReadCsv ==
    /\ pc = "main"
    /\ ~(last_year <= start_year \/ last_year - start_year > limmit_num)
    /\ data_list' = read_csv(is_file, file)
    /\ pc' = "make_plan"
    /\ UNCHANGED <<start_year, last_year, is_file, file, plan_list, row_idx,
                   yyyy, i, arg_list, full_plan_list, out_file, exit_status>>

\* an exception nobody catches: traceback, status 1
Raise ==
    /\ pc' = "crash"
    /\ exit_status' = <<1>>

\* main, line 78: make_plan is called with whatever read_csv returned
MakePlanCall ==
    /\ pc = "make_plan"
    /\ plan_list' = <<>>
    /\ row_idx' = 1
    /\ pc' = "for_row"
    /\ UNCHANGED <<start_year, last_year, is_file, file, data_list, yyyy, i,
                   arg_list, full_plan_list, out_file, exit_status>>

\* make_plan, line 154 on False: 'bool' object is not iterable
ForRowTypeError ==
    /\ pc = "for_row"
    /\ ~IsList(data_list)
    /\ Raise
    /\ UNCHANGED <<start_year, last_year, is_file, file, data_list, plan_list,
                   row_idx, yyyy, i, arg_list, full_plan_list, out_file>>

\* make_plan, lines 154-156: the next row, yyyy = int(row[3])
ForRow ==
    /\ pc = "for_row"
    /\ IsList(data_list)
    /\ row_idx <= Len(data_list.list)
    /\ LET row == data_list.list[row_idx]
       IN  IF ValueError(row[4])
           THEN Raise /\ UNCHANGED <<yyyy, i>>
           ELSE /\ yyyy' = int(row[4])
                /\ i' = 1
                /\ pc' = "for_i"
                /\ UNCHANGED exit_status
    /\ UNCHANGED <<start_year, last_year, is_file, file, data_list, plan_list,
                   row_idx, arg_list, full_plan_list, out_file>>

\* make_plan, line 169: the rows are used up, plan_list is returned
MakePlanReturn ==
    /\ pc = "for_row"
    /\ IsList(data_list)
    /\ row_idx > Len(data_list.list)
    /\ pc' = "fill_dummydata"
    /\ UNCHANGED <<start_year, last_year, is_file, file, data_list, plan_list,
                   row_idx, yyyy, i, arg_list, full_plan_list, out_file,
                   exit_status>>

\* make_plan, line 158: range(1, limmit_num) is used up
ForIExhausted ==
    /\ pc = "for_i"
    /\ i >= limmit_num
    /\ row_idx' = row_idx + 1
    /\ pc' = "for_row"
    /\ UNCHANGED <<start_year, last_year, is_file, file, data_list, plan_list,
                   yyyy, i, arg_list, full_plan_list, out_file, exit_status>>

\* make_plan, lines 160-161: break once yyyy >= last_year
ForIBreak ==
    /\ pc = "for_i"
    /\ i < limmit_num
    /\ yyyy >= last_year
    /\ row_idx' = row_idx + 1
    /\ pc' = "for_row"
    /\ UNCHANGED <<start_year, last_year, is_file, file, data_list, plan_list,
                   yyyy, i, arg_list, full_plan_list, out_file, exit_status>>

\* make_plan, lines 162-167: add_planlist, break when the period is < 1
ForIBody ==
    /\ pc = "for_i"
    /\ i < limmit_num
    /\ yyyy < last_year
    /\ LET row == data_list.list[row_idx]
           res == add_planlist(row, yyyy, start_year, plan_list)
       IN  /\ plan_list' = res.plan_list
           /\ IF res.raised
              THEN Raise /\ UNCHANGED <<yyyy, i, row_idx>>
              ELSE /\ yyyy' = res.yyyy
                   /\ UNCHANGED exit_status
                   /\ IF int(row[5]) < 1
                      THEN /\ row_idx' = row_idx + 1
                           /\ pc' = "for_row"
                           /\ UNCHANGED i
                      ELSE /\ i' = i + 1
                           /\ UNCHANGED <<pc, row_idx>>
    /\ UNCHANGED <<start_year, last_year, is_file, file, data_list, arg_list,
                   full_plan_list, out_file>>

\* main, line 81: fill_dummydata changes plan_list in place and returns it
FillDummy ==
    /\ pc = "fill_dummydata"
    /\ arg_list' = plan_list
    /\ plan_list' = fill_dummydata(plan_list, start_year, last_year)
    /\ full_plan_list' = plan_list'
    /\ pc' = "save_csv"
    /\ UNCHANGED <<start_year, last_year, is_file, file, data_list, row_idx,
                   yyyy, i, out_file, exit_status>>

\* main, lines 84-85: save_csv writes nothing for an empty list; an error
\* while writing is caught and reported; main ends with status 0 either way
SaveCsv ==
    /\ pc = "save_csv"
    /\ IF full_plan_list = <<>>
       THEN UNCHANGED out_file
       ELSE \E written \in BOOLEAN :
                out_file' = IF written THEN full_plan_list ELSE <<>>
    /\ pc' = "done"
    /\ exit_status' = <<0>>
    /\ UNCHANGED <<start_year, last_year, is_file, file, data_list, plan_list,
                   row_idx, yyyy, i, arg_list, full_plan_list>>

Next ==
    \/ WindowRejected
    \/ ReadCsv
    \/ MakePlanCall
    \/ ForRowTypeError
    \/ ForRow
    \/ MakePlanReturn
    \/ ForIExhausted
    \/ ForIBreak
    \/ ForIBody
    \/ FillDummy
    \/ SaveCsv

Spec == Init /\ [][Next]_vars

(* ------------------- fill_dummydata on any record list ----------------- *)
FillYears == {9, 10, 11, 12}

\* a record as add_planlist makes it
work_record(y) == tmplist(Row(<<"1">>, work_name(1), <<"9">>, <<"1">>), y)

FillWindows == {<<s, e>> : s \in {9, 10, 11}, e \in 9..(11 + MaxSpan)}

InitFill ==
    /\ pc = "fill_1"
    /\ \E w \in FillWindows : start_year = w[1] /\ last_year = w[2]
    /\ \E n \in 0..MaxRecs :
           \E ys \in [1..n -> FillYears], ds \in [1..n -> BOOLEAN] :
               plan_list = [k \in 1..n |-> IF ds[k] THEN dummy_data(ys[k])
                                                    ELSE work_record(ys[k])]
    /\ is_file = FALSE
    /\ file = <<>>
    /\ data_list = PyList(<<>>)
    /\ row_idx = 0
    /\ yyyy = 0
    /\ i = 0
    /\ arg_list = <<>>
    /\ full_plan_list = <<>>
    /\ out_file = <<>>
    /\ exit_status = <<>>

\* fill_dummydata applied to the list
FillFirst ==
    /\ pc = "fill_1"
    /\ arg_list' = plan_list
    /\ plan_list' = fill_dummydata(plan_list, start_year, last_year)
    /\ full_plan_list' = plan_list'
    /\ pc' = "fill_2"
    /\ UNCHANGED <<start_year, last_year, is_file, file, data_list, row_idx,
                   yyyy, i, out_file, exit_status>>

\* fill_dummydata applied to its own result
FillSecond ==
    /\ pc = "fill_2"
    /\ arg_list' = plan_list
    /\ plan_list' = fill_dummydata(plan_list, start_year, last_year)
    /\ full_plan_list' = plan_list'
    /\ pc' = "fill_done"
    /\ UNCHANGED <<start_year, last_year, is_file, file, data_list, row_idx,
                   yyyy, i, out_file, exit_status>>

NextFill == FillFirst \/ FillSecond

SpecFill == InitFill /\ [][NextFill]_vars

(* ------------------------------ properties ----------------------------- *)
ValidWindow == last_year > start_year /\ last_year - start_year <= limmit_num

\* the years of a record list
YearsOf(records) == [k \in 1..Len(records) |-> records[k][2]]

\* the years of the records of plan_list that carry the work name, in order
YearsOfItem(name) == YearsOf(SelectSeq(plan_list, LAMBDA r : r[4] = name))

IsDummy(r) == r[4] = dummy_label

\* two records are the same list
SameRecord(a, b) == a[2] = b[2] /\ a[4] = b[4] /\ a = b

\* the rows make_plan was given whose first year and period are integers
IntRows ==
    {k \in 1..Len(data_list.list) :
        ~ValueError(data_list.list[k][4]) /\ ~ValueError(data_list.list[k][5])}

FirstYear(k) == int(data_list.list[k][4])

Period(k) == int(data_list.list[k][5])

\* C1: after make_plan and fill_dummydata have run on a valid window, every
\* year of [start_year, last_year) is the year of at least one record of the
\* final list.
Coverage ==
    (pc \in {"save_csv", "done"} /\ ValidWindow)
        => \A y \in start_year..(last_year - 1) :
               \E k \in 1..Len(full_plan_list) : full_plan_list[k][2] = y

\* a run ended with works and dummies in the list it wrote
CoverageWitness ==
    /\ pc = "done"
    /\ out_file # <<>>
    /\ Len(data_list.list) > 0
    /\ \E k \in 1..Len(full_plan_list) : IsDummy(full_plan_list[k])
    /\ \E k \in 1..Len(full_plan_list) : ~IsDummy(full_plan_list[k])

\* C2: when make_plan returns, a row with first year Y and period P > 0 has
\* exactly one record for every year of {Y, Y+P, Y+2P, ...} that lies in
\* [start_year, last_year) and no other record; that is
\* floor((last_year - 1 - Y) / P) + 1 records when start_year <= Y < last_year
\* and none when Y >= last_year.
PeriodicItem ==
    pc = "fill_dummydata"
        => \A k \in IntRows :
               Period(k) > 0 =>
                   LET Y == FirstYear(k)
                       P == Period(k)
                       got == YearsOfItem(data_list.list[k][3])
                   IN  /\ got = SelectSeq(range(start_year, last_year),
                                   LAMBDA y : y >= Y /\ (y - Y) % P = 0)
                       /\ (Y >= start_year /\ Y < last_year)
                              => Len(got) = ((last_year - 1 - Y) \div P) + 1
                       /\ Y >= last_year => Len(got) = 0

\* C3: the inner loop of make_plan over a row with a positive period never
\* uses up its iterations while the year is still below last_year.
CapNeverReached ==
    (pc = "for_i" /\ i >= limmit_num /\ row_idx \in IntRows
        /\ Period(row_idx) > 0)
        => yyyy >= last_year

\* C4: on a window with last_year <= start_year or a span above 100 main goes
\* no further than the window test and the process ends with a status other
\* than 0.
WindowAbortNonZero ==
    ~ValidWindow
        => /\ pc \in {"main", "exit"}
           /\ pc = "exit" => exit_status # <<0>>

\* C5: a run whose table has a row with a first year or a period that is not
\* an integer does not end normally and writes no output.
FieldTypeErrorFatal ==
    (IsList(data_list) /\ IntRows # 1..Len(data_list.list))
        => pc # "done" /\ out_file = <<>>

\* a data row of the file that is not blank and has a blank version
HasEmptyVersion ==
    \E k \in 2..Len(file) :
        /\ file[k] # <<>>
        /\ ~(\A c \in 1..Len(file[k]) : IsBlank(file[k][c]))
        /\ IsBlank(file[k][1])

\* C6: when a data row that is not blank has a blank version, read_csv
\* returns False, make_plan is not entered with that result and nothing is
\* written.
StructuralFailureStops ==
    (is_file /\ HasEmptyVersion /\ pc \notin {"main", "exit"})
        => /\ data_list = PyFalse
           /\ pc \notin {"for_row", "for_i", "fill_dummydata", "save_csv",
                         "done"}
           /\ out_file = <<>>

\* C7: when make_plan returns, a row with period 0 and first year Y has
\* exactly one record, of year Y, if start_year <= Y < last_year, and no
\* record otherwise.
OneTimeItem ==
    pc = "fill_dummydata"
        => \A k \in IntRows :
               Period(k) = 0 =>
                   YearsOfItem(data_list.list[k][3]) =
                       IF start_year <= FirstYear(k) /\ FirstYear(k) < last_year
                       THEN <<FirstYear(k)>>
                       ELSE <<>>

\* make_plan returned for one one-time row inside the window and one outside
OneTimeItemWitness ==
    /\ pc = "fill_dummydata"
    /\ \E k \in IntRows :
           /\ Period(k) = 0
           /\ start_year <= FirstYear(k) /\ FirstYear(k) < last_year
           /\ Len(YearsOfItem(data_list.list[k][3])) = 1
    /\ \E k \in IntRows :
           /\ Period(k) = 0
           /\ FirstYear(k) < start_year \/ FirstYear(k) >= last_year

\* C8: fill_dummydata applied to its own result, with the same window, gives
\* back the list it was given: no record is added.
GapFillIdempotent ==
    pc = "fill_done"
        => /\ Len(plan_list) = Len(arg_list)
           /\ \A k \in 1..Len(plan_list) : SameRecord(plan_list[k], arg_list[k])

\* fill_dummydata ran twice on a list of works and dummies whose window has
\* several years
GapFillIdempotentWitness ==
    /\ pc = "fill_done"
    /\ last_year - start_year >= 2
    /\ \E k \in 1..Len(plan_list) :
           /\ IsDummy(plan_list[k])
           /\ plan_list[k][2] \in start_year..(last_year - 1)
    /\ \E k \in 1..Len(plan_list) :
           /\ ~IsDummy(plan_list[k])
           /\ plan_list[k][2] \in start_year..(last_year - 1)

\* C9: no record of the list make_plan builds and returns has a year below
\* start_year.
NoLeakBelowStart ==
    pc \in {"for_row", "for_i", "fill_dummydata"}
        => \A k \in 1..Len(plan_list) : plan_list[k][2] >= start_year

\* make_plan returned records for a row whose first year is below start_year
NoLeakBelowStartWitness ==
    /\ pc = "fill_dummydata"
    /\ \E k \in IntRows :
           /\ FirstYear(k) < start_year
           /\ Len(YearsOfItem(data_list.list[k][3])) > 0

\* the years of [start_year, last_year) no record of the list has
MissingYears(records) ==
    {y \in start_year..(last_year - 1) :
        \A k \in 1..Len(records) : records[k][2] # y}

\* C10: the result of fill_dummydata is the records it was given, in their
\* order, followed by one dummy record for every year of
\* [start_year, last_year) none of them has, in ascending order of year.
GapFillFrame ==
    pc \in {"fill_2", "fill_done"}
        => LET M == MissingYears(arg_list)
               n == Len(arg_list)
           IN  /\ Len(plan_list) = n + Cardinality(M)
               /\ \A k \in 1..n : SameRecord(plan_list[k], arg_list[k])
               /\ \A j \in 1..Cardinality(M) :
                      LET r == plan_list[n + j]
                      IN  /\ r[2] \in M
                          /\ Cardinality({m \in M : m < r[2]}) = j - 1
                          /\ SameRecord(r, dummy_data(r[2]))

\* fill_dummydata added dummies behind records it was given, one of them for
\* a year of the window
GapFillFrameWitness ==
    /\ pc = "fill_2"
    /\ Len(plan_list) >= Len(arg_list) + 2
    /\ \E k \in 1..Len(arg_list) :
           arg_list[k][2] \in start_year..(last_year - 1)

====
